---- MODULE Spec2Model ----
(***************************************************************************)
(* Model of the LyricsPlayer component of the chantastik client:           *)
(*   - the timing derivation (parseLines, totalFrames), and                *)
(*   - the render session logic of handleRenderVideo: the EventSource      *)
(*     callbacks, the render submission (renderVideo) and the Render       *)
(*     button gating.                                                      *)
(* Times are integers in centiseconds (1/100 s); frames are integers.      *)
(***************************************************************************)
EXTENDS Integers, Sequences, FiniteSets, Bags, TLC

VARIABLES
    lyricLines,           \* store: start times (cs) of the lyric lines, in order
    audio,                \* store: audio?.id is set
    storedAudioMetadata,  \* localStorage has `currentAudioMetadata`
    audioDuration,        \* audioRef.current?.duration: <<>> (NaN/undefined) or <<cs>>
    memoDuration,         \* the duration dependency the totalFrames memo was computed with
    totalFrames,          \* the memoized totalFrames value
    aspectRatio,          \* useState<AspectRatioType>
    renderProgress,       \* useState: "null" or the type of the last progress event
    sessions,             \* bag of render sessions started by handleRenderVideo
    validationErrors      \* number of 'Cannot render video' toasts shown

vars == <<lyricLines, audio, storedAudioMetadata, audioDuration, memoDuration,
          totalFrames, aspectRatio, renderProgress, sessions, validationErrors>>

(***************************************************************************)
(* Bounds of the model.                                                    *)
(***************************************************************************)
MaxLines == 2        \* lyric lines in a sequence
MaxCs == 2           \* sub-frame start times 0..MaxCs centiseconds
MaxSec == 2          \* whole-second start times 1..MaxSec seconds
MaxDurSec == 3       \* audio durations of 0..MaxDurSec seconds, plus 0 or 1 centisecond
MaxSessions == 2     \* render sessions started in one run
MaxValidation == 1   \* validation toasts counted in one run

(***************************************************************************)
(* Program constants.                                                      *)
(***************************************************************************)
FrameRate == 30
BufferFrames == 30
DefaultDuration == 90

Max(a, b) == IF a >= b THEN a ELSE b

\* Math.round(seconds * 30) for a time of cs centiseconds (cs >= 0)
RoundFrames(cs) == (2 * cs * FrameRate + 100) \div 200

\* a slip: Math.floor in place of Math.ceil
FloorFrames(cs) == (cs * FrameRate) \div 100

\* Math.ceil(seconds * 30) for a time of cs centiseconds (cs >= 0)
CeilFrames(cs) == (cs * FrameRate + 99) \div 100

\* `duration || 0`: NaN and undefined (and 0) give 0
OrZero(d) == IF d = <<>> THEN 0 ELSE d[1]

\* parseLines: one derived line per lyric line
parseLines(lines) ==
    [i \in 1..Len(lines) |->
        [startFrame |-> RoundFrames(lines[i]),
         endFrame   |-> IF i < Len(lines)
                          THEN RoundFrames(lines[i + 1])
                          ELSE RoundFrames(lines[i]) + DefaultDuration]]

lyricsData == parseLines(lyricLines)

\* a plausible slip: the audio length is used whenever it is available
computeTotalFrames_audioFirst(data, duration) ==
    IF Len(data) = 0 THEN 0
    ELSE LET audioFrames == CeilFrames(OrZero(duration))
             lastLyricFrame == data[Len(data)].endFrame
         IN  (IF audioFrames # 0 THEN audioFrames ELSE lastLyricFrame) + BufferFrames

\* the body of the totalFrames memo
computeTotalFrames(data, duration) ==
    IF Len(data) = 0 THEN 0
    ELSE LET audioFrames == CeilFrames(OrZero(duration))
             lastLyricFrame == data[Len(data)].endFrame
         IN  Max(audioFrames, lastLyricFrame) + BufferFrames

\* A render of the component with the given lyric lines: lyricsData is a new
\* array, so the memo is recomputed with the duration read at this render.
Rerender(lines) ==
    /\ memoDuration' = audioDuration
    /\ totalFrames' = computeTotalFrames(parseLines(lines), audioDuration)

(***************************************************************************)
(* Inputs.                                                                 *)
(***************************************************************************)
TimeSet == (0..MaxCs) \cup {100 * k : k \in 1..MaxSec}

DurationSet ==
    {<<>>} \cup {<<100 * k + c>> : k \in 0..MaxDurSec, c \in 0..1}

IsOrdered(lines) == \A i \in 1..(Len(lines) - 1) : lines[i] <= lines[i + 1]

AllLines ==
    UNION {{l \in [1..n -> TimeSet] : IsOrdered(l)} : n \in 0..MaxLines}

ControllerLines == {<<>>, <<0>>}

(***************************************************************************)
(* Render sessions.                                                        *)
(***************************************************************************)
ProgressTypes == {"bundling", "rendering"}
TerminalTypes == {"complete", "error"}

\* the state handleRenderVideo creates: an open EventSource and a pending mutation
NewSession ==
    [es |-> "open", submit |-> "pending", status |-> "requested",
     outcome |-> "none", closeCalls |-> 0, success |-> 0, failure |-> 0]

isRendering == renderProgress # "null"

\* the `disabled` expression of the Render button
disabled == isRendering \/ ~audio \/ Len(lyricsData) = 0

\* a slip: only the lyric sequence is validated
preconditionsUnmet_lyricsOnly == Len(lyricsData) = 0

\* the validation test of handleRenderVideo
preconditionsUnmet == ~storedAudioMetadata \/ Len(lyricsData) = 0

\* a slip: the complete branch does not close the connection
onmessage_noClose(s, type) ==
    IF type = "complete"
      THEN [session |-> [s EXCEPT !.outcome = "complete",
                                  !.success = @ + 1],
            renderProgress |-> "null"]
    ELSE IF type = "error"
      THEN [session |-> [s EXCEPT !.es = "closed", !.outcome = "error",
                                  !.closeCalls = @ + 1, !.failure = @ + 1],
            renderProgress |-> "null"]
    ELSE [session |-> [s EXCEPT !.status = type], renderProgress |-> type]

\* a slip: the complete branch leaves the `complete` status in place
onmessage_noReset(s, type) ==
    IF type = "complete"
      THEN [session |-> [s EXCEPT !.es = "closed", !.outcome = "complete",
                                  !.closeCalls = @ + 1, !.success = @ + 1],
            renderProgress |-> type]
    ELSE IF type = "error"
      THEN [session |-> [s EXCEPT !.es = "closed", !.outcome = "error",
                                  !.closeCalls = @ + 1, !.failure = @ + 1],
            renderProgress |-> "null"]
    ELSE [session |-> [s EXCEPT !.status = type], renderProgress |-> type]

\* eventSource.onmessage: the session afterwards and the render status set
onmessage(s, type) ==
    IF type = "complete"
      THEN [session |-> [s EXCEPT !.es = "closed", !.outcome = "complete",
                                  !.closeCalls = @ + 1, !.success = @ + 1],
            renderProgress |-> "null"]
    ELSE IF type = "error"
      THEN [session |-> [s EXCEPT !.es = "closed", !.outcome = "error",
                                  !.closeCalls = @ + 1, !.failure = @ + 1],
            renderProgress |-> "null"]
    ELSE [session |-> [s EXCEPT !.status = type], renderProgress |-> type]

\* a slip: the transport error handler leaves the render status as it is
onerror_noReset(s) ==
    [session |-> [s EXCEPT !.es = "closed", !.outcome = "transport",
                           !.closeCalls = @ + 1, !.failure = @ + 1],
     renderProgress |-> renderProgress]

\* eventSource.onerror
onerror(s) ==
    [session |-> [s EXCEPT !.es = "closed", !.outcome = "transport",
                           !.closeCalls = @ + 1, !.failure = @ + 1],
     renderProgress |-> "null"]

\* renderVideo resolving: toast.success('Render completed')
renderVideoResolved(s) == [s EXCEPT !.submit = "ok", !.success = @ + 1]

\* renderVideo rejecting: toast.error('Render failed') and rethrow
renderVideoRejected(s) == [s EXCEPT !.submit = "failed", !.failure = @ + 1]

ReplaceSession(old, new) == (sessions (-) SetToBag({old})) (+) SetToBag({new})

OpenSessions == {s \in BagToSet(sessions) : s.es = "open"}

OpenCount == BagCardinality([s \in OpenSessions |-> sessions[s]])

(***************************************************************************)
(* Initial state: the player mounted, nothing loaded.                      *)
(***************************************************************************)
Init ==
    /\ lyricLines = <<>>
    /\ audio = FALSE
    /\ storedAudioMetadata = FALSE
    /\ audioDuration = <<>>
    /\ memoDuration = <<>>
    /\ totalFrames = 0
    /\ aspectRatio = "horizontal"
    /\ renderProgress = "null"
    /\ sessions = EmptyBag
    /\ validationErrors = 0

(***************************************************************************)
(* Store and browser events the component reads.                           *)
(***************************************************************************)
\* the editor replaces the lyric lines; the store subscription re-renders
SetLyricLines(S) ==
    /\ \E l \in S :
        /\ l # lyricLines
        /\ lyricLines' = l
        /\ Rerender(l)
    /\ UNCHANGED <<audio, storedAudioMetadata, audioDuration, aspectRatio,
                   renderProgress, sessions, validationErrors>>

\* an audio track is loaded: the store and localStorage both get its metadata
SetAudio ==
    /\ ~audio \/ ~storedAudioMetadata
    /\ audio' = TRUE
    /\ storedAudioMetadata' = TRUE
    /\ Rerender(lyricLines)
    /\ UNCHANGED <<lyricLines, audioDuration, aspectRatio, renderProgress,
                   sessions, validationErrors>>

\* localStorage is cleared outside the component; nothing re-renders
ClearStorage ==
    /\ storedAudioMetadata
    /\ storedAudioMetadata' = FALSE
    /\ UNCHANGED <<lyricLines, audio, audioDuration, memoDuration, totalFrames,
                   aspectRatio, renderProgress, sessions, validationErrors>>

\* the audio element's duration changes; a ref change does not re-render
DurationChange ==
    /\ \E d \in DurationSet :
        /\ d # audioDuration
        /\ audioDuration' = d
    /\ UNCHANGED <<lyricLines, audio, storedAudioMetadata, memoDuration,
                   totalFrames, aspectRatio, renderProgress, sessions,
                   validationErrors>>

\* PlayerToolbar changes the aspect ratio; the state change re-renders
SetAspectRatio ==
    /\ \E r \in {"horizontal", "vertical"} :
        /\ r # aspectRatio
        /\ aspectRatio' = r
    /\ Rerender(lyricLines)
    /\ UNCHANGED <<lyricLines, audio, storedAudioMetadata, audioDuration,
                   renderProgress, sessions, validationErrors>>

(***************************************************************************)
(* The render session.                                                     *)
(***************************************************************************)
\* a click on the enabled Render button runs handleRenderVideo
ClickRender ==
    /\ ~disabled
    /\ IF preconditionsUnmet
         THEN /\ validationErrors < MaxValidation
              /\ validationErrors' = validationErrors + 1
              /\ UNCHANGED sessions
         ELSE /\ BagCardinality(sessions) < MaxSessions
              /\ sessions' = sessions (+) SetToBag({NewSession})
              /\ UNCHANGED validationErrors
    /\ UNCHANGED <<lyricLines, audio, storedAudioMetadata, audioDuration,
                   memoDuration, totalFrames, aspectRatio, renderProgress>>

\* the server pushes an event on an open connection
OnMessage ==
    /\ \E s \in OpenSessions, type \in ProgressTypes \cup TerminalTypes :
        LET r == onmessage(s, type)
        IN  /\ sessions' = ReplaceSession(s, r.session)
            /\ renderProgress' = r.renderProgress
    /\ Rerender(lyricLines)
    /\ UNCHANGED <<lyricLines, audio, storedAudioMetadata, audioDuration,
                   aspectRatio, validationErrors>>

\* the connection fails
OnError ==
    /\ \E s \in OpenSessions :
        LET r == onerror(s)
        IN  /\ sessions' = ReplaceSession(s, r.session)
            /\ renderProgress' = r.renderProgress
    /\ Rerender(lyricLines)
    /\ UNCHANGED <<lyricLines, audio, storedAudioMetadata, audioDuration,
                   aspectRatio, validationErrors>>

\* POST /render answers 2xx
SubmitResolve ==
    /\ \E s \in BagToSet(sessions) :
        /\ s.submit = "pending"
        /\ sessions' = ReplaceSession(s, renderVideoResolved(s))
    /\ UNCHANGED <<lyricLines, audio, storedAudioMetadata, audioDuration,
                   memoDuration, totalFrames, aspectRatio, renderProgress,
                   validationErrors>>

\* POST /render answers non-2xx or the fetch fails
SubmitReject ==
    /\ \E s \in BagToSet(sessions) :
        /\ s.submit = "pending"
        /\ sessions' = ReplaceSession(s, renderVideoRejected(s))
    /\ UNCHANGED <<lyricLines, audio, storedAudioMetadata, audioDuration,
                   memoDuration, totalFrames, aspectRatio, renderProgress,
                   validationErrors>>

Next ==
    \/ SetLyricLines(ControllerLines)
    \/ SetAudio
    \/ ClearStorage
    \/ ClickRender
    \/ OnMessage
    \/ OnError
    \/ SubmitResolve
    \/ SubmitReject

Spec == Init /\ [][Next]_vars

NextTiming ==
    \/ SetLyricLines(AllLines)
    \/ DurationChange
    \/ SetAspectRatio

SpecTiming == Init /\ [][NextTiming]_vars

(***************************************************************************)
(* The render session with a progress channel that ends every connection.  *)
(***************************************************************************)
\* the server pushes a `complete` or an `error` event on an open connection
OnTerminalMessage ==
    /\ \E s \in OpenSessions, type \in TerminalTypes :
        LET r == onmessage(s, type)
        IN  /\ sessions' = ReplaceSession(s, r.session)
            /\ renderProgress' = r.renderProgress
    /\ Rerender(lyricLines)
    /\ UNCHANGED <<lyricLines, audio, storedAudioMetadata, audioDuration,
                   aspectRatio, validationErrors>>

\* the channel ends an open connection: a terminal event or a transport error
ChannelEnds == OnTerminalMessage \/ OnError

\* Next, with every open connection eventually ended by the channel
SpecLive == Init /\ [][Next]_vars /\ WF_vars(ChannelEnds)

(***************************************************************************)
(* Properties of the render session (checked under Spec).                  *)
(***************************************************************************)
Ended(s) == s.outcome # "none"

\* C1: every session that ended (a pushed `complete`, a pushed `error` or a
\* transport error was handled) has its EventSource closed, by one close call.
C1_ClosedOnEveryTerminalPath ==
    \A s \in BagToSet(sessions) :
        Ended(s) => (s.es = "closed" /\ s.closeCalls = 1)

\* C1 witness: one session ended by a transport error and one by `complete`
C1_Witness ==
    /\ \E s \in BagToSet(sessions) : s.outcome = "transport" /\ s.es = "closed"
    /\ \E s \in BagToSet(sessions) : s.outcome = "complete" /\ s.es = "closed"

\* C2: once the render submission of a session has been rejected, a failure
\* notification was reported, the session's progress connection is closed and
\* the controller is idle.
C2_SubmissionFailureClosesConnection ==
    \A s \in BagToSet(sessions) :
        s.submit = "failed" =>
            (s.failure >= 1 /\ s.es = "closed" /\ renderProgress = "null")

\* C3: at most one progress connection is open at any time (a trigger during
\* an active session, also before its first progress event, is rejected).
C3_OneActiveSession == OpenCount <= 1

C5_OneSuccessNotification ==
    \A s \in BagToSet(sessions) :
        (s.status = "rendering" /\ s.outcome = "complete") =>
            (s.es = "closed" /\ s.closeCalls = 1 /\ s.success = 1)

\* C6: a session ended by a transport error has its connection closed and has
\* fired exactly one failure notification, whatever happens later.
C6_OneFailureNotification ==
    \A s \in BagToSet(sessions) :
        s.outcome = "transport" => (s.es = "closed" /\ s.failure = 1)

\* C10: when no progress connection is open the render status is null and
\* the trigger is not shown as rendering.
C10_IdleWhenNoConnection ==
    (OpenSessions = {}) => (renderProgress = "null" /\ ~isRendering)

\* C10 witness: a session had progress applied and then ended; none is open
C10_Witness ==
    /\ OpenSessions = {}
    /\ \E s \in BagToSet(sessions) : s.status = "rendering" /\ Ended(s)
    /\ \E s \in BagToSet(sessions) : s.status = "bundling" /\ s.outcome = "transport"

(***************************************************************************)
(* Properties of the timing derivation (checked under SpecTiming).         *)
(***************************************************************************)
LastEndFrame(lines) == parseLines(lines)[Len(lines)].endFrame

\* C7: totalFrames is 0 for an empty sequence and otherwise
\* max(ceil(duration * 30), endFrame of the last derived line) + 30, an
\* unavailable duration counting as 0.
C7_TotalFramesFormula ==
    /\ lyricLines = <<>> => totalFrames = 0
    /\ lyricLines # <<>> =>
          LET audioFrames == IF memoDuration = <<>> THEN 0
                             ELSE (memoDuration[1] * 30 + 99) \div 100
              lastEnd == lyricsData[Len(lyricsData)].endFrame
          IN  /\ totalFrames = (IF audioFrames >= lastEnd THEN audioFrames ELSE lastEnd) + 30
              /\ (memoDuration = <<>> => totalFrames = lastEnd + 30)

\* C7 witness: a single line at 0 s rendered with an audio of 3.01 s, whose
\* 90.3 frames round up to 91 and outlast the line's end
C7_Witness ==
    /\ lyricLines = <<0>>
    /\ memoDuration = <<301>>
    /\ LastEndFrame(lyricLines) < 91
    /\ totalFrames = 91 + 30

StrictlyOrdered(lines) == \A i \in 1..(Len(lines) - 1) : lines[i] < lines[i + 1]

\* C8: every derived line of an ordered non-empty sequence has
\* endFrame > startFrame.
C8_EndAfterStart ==
    (lyricLines # <<>> /\ StrictlyOrdered(lyricLines)) =>
        \A i \in 1..Len(lyricsData) :
            lyricsData[i].endFrame > lyricsData[i].startFrame

\* C9: from one render to the next, totalFrames does not decrease when the
\* audio duration does not decrease and the lyric sequence is the same, nor
\* when the last derived endFrame does not decrease and the duration is the same.
C9_TotalFramesMonotone ==
    [][/\ (/\ lyricLines # <<>>
           /\ lyricLines' = lyricLines
           /\ OrZero(memoDuration') >= OrZero(memoDuration))
          => totalFrames' >= totalFrames
       /\ (/\ lyricLines # <<>>
           /\ lyricLines' # <<>>
           /\ memoDuration' = memoDuration
           /\ LastEndFrame(lyricLines') >= LastEndFrame(lyricLines))
          => totalFrames' >= totalFrames]_vars

\* C9 witness: a render with an audio longer than the lyrics, after the
\* initial render without a duration
C9_Witness ==
    /\ lyricLines # <<>>
    /\ memoDuration # <<>>
    /\ CeilFrames(OrZero(memoDuration)) > LastEndFrame(lyricLines)
    /\ totalFrames = CeilFrames(OrZero(memoDuration)) + 30

(***************************************************************************)
(* Properties of the render session's life cycle (checked under SpecLive). *)
(***************************************************************************)
\* one step of one session along idle -> requested -> {bundling, rendering}
\* -> complete | error | transport error -> idle
C11_PathStep ==
    sessions' # sessions =>
        \/ /\ renderProgress = "null"
           /\ sessions' = sessions (+) SetToBag({NewSession})
           /\ renderProgress' = renderProgress
        \/ \E s \in BagToSet(sessions), t \in BagToSet(sessions') :
              /\ sessions' = ReplaceSession(s, t)
              /\ \/ /\ s.es = "open"
                    /\ t = [s EXCEPT !.status = t.status]
                    /\ t.status \in ProgressTypes
                    /\ renderProgress' = t.status
                 \/ /\ s.es = "open"
                    /\ t = [s EXCEPT !.es = "closed", !.outcome = t.outcome,
                                     !.closeCalls = 1,
                                     !.success = t.success, !.failure = t.failure]
                    /\ t.outcome \in {"complete", "error", "transport"}
                    /\ renderProgress' = "null"
                 \/ /\ s.submit = "pending"
                    /\ t = [s EXCEPT !.submit = t.submit,
                                     !.success = t.success, !.failure = t.failure]
                    /\ t.submit \in {"ok", "failed"}
                    /\ renderProgress' = renderProgress

\* the controller is idle and no connection is open
C11_Idle == OpenSessions = {} /\ renderProgress = "null"

\* C11: every session moves only along idle -> requested -> {bundling,
\* rendering} -> complete | error | transport error -> idle, and, the channel
\* eventually ending each open connection, whenever a connection is open the
\* controller eventually is idle again with every connection closed, whatever
\* the render submission does.
C11_SessionEnds ==
    /\ [][C11_PathStep]_vars
    /\ (OpenSessions # {}) ~> C11_Idle

\* C11 witness: a session that rendered, completed and had its submission
\* rejected; the controller is idle with no connection open
C11_Witness ==
    /\ C11_Idle
    /\ \E s \in BagToSet(sessions) :
          s.status = "rendering" /\ s.outcome = "complete" /\ s.submit = "failed"
    /\ \E s \in BagToSet(sessions) :
          s.outcome = "transport" /\ s.submit = "pending"

====
